---- MODULE Spec2Model ----
(***************************************************************************)
(* AgoraX Video: the Socket.IO signaling router (src/src/server.ts) and    *)
(* the browser client that drives one RTCPeerConnection per remote peer    *)
(* (src/src/client/app.ts).                                                *)
(*                                                                         *)
(* Socket.IO keeps, per namespace, a map  room key -> Set of socket ids    *)
(* (io.sockets.adapter.rooms) and per socket the Set of its room keys      *)
(* (socket.rooms).  Both Sets iterate in insertion order, so they are      *)
(* sequences without repetition here.  Every connected socket is a member  *)
(* of the room named by its own id.                                        *)
(***************************************************************************)
EXTENDS Integers, Sequences, FiniteSets, TLC

\* ----------------------------------------------------------------- bounds
NumClients == 3
NumRooms == 2
\* clicks on join buttons, all pages together
MaxClicks == 2
\* clicks on join buttons when users wait for the pages to settle
MaxMeshClicks == 3
\* clicks on join buttons where sockets other than pages take part
MaxOpenClicks == 1
\* clicks on join buttons where users may type the id of a socket
MaxTypedClicks == 1
\* events emitted by sockets that are not pages of app.ts
MaxForeignEvents == 2
\* local ICE candidates the browsers discover, all connections together
MaxCandidates == 1

SocketIdNames == <<"A", "B", "C", "D", "E">>
RoomNames == <<"r1", "r2", "r3", "r4">>

\* server-assigned socket ids and the room keys users type
SocketIds == {SocketIdNames[i] : i \in 1..NumClients}
RoomIds == {RoomNames[i] : i \in 1..NumRooms}
\* the room of the scenarios in which all pages meet
MeshRoom == RoomNames[1]
\* every string that can be a key of io.sockets.adapter.rooms
Keys == SocketIds \cup RoomIds

\* JavaScript undefined (a missing field)
Undefined == "undefined"
\* the empty string, what roomInput.value.trim() is for a blank input
Empty == ""

\* ------------------------------------------------------------ signal data
SignalTypes == {"offer", "answer", "candidate"}
\* an envelope kind outside the protocol
BogusType == "bogus"

\* data.defined = FALSE is a payload without a data field
NoData == [defined |-> FALSE, type |-> Undefined, to |-> Undefined]
MkData(type, to) == [defined |-> TRUE, type |-> type, to |-> to]

\* What a socket may send as the argument of 'signal'.  The router never
\* reads data.type, so one protocol kind and one foreign kind stand for all.
RawTypes == {"offer", BogusType}
RawRoomIds == RoomIds \cup {Undefined}
RawSignals ==
  {[roomId |-> r, data |-> d] :
     r \in RawRoomIds,
     d \in {NoData} \cup {MkData(t, Undefined) : t \in RawTypes}}
  \cup {[roomId |-> r, data |-> MkData("offer", to)] :
          r \in RawRoomIds, to \in Keys}

\* a packet the server writes to one socket
Pkt(to, ev, from, data) == [to |-> to, ev |-> ev, from |-> from, data |-> data]

\* ------------------------------------------------------------------ state
VARIABLES
  up,      \* the node process of server.ts is running
  conn,    \* socket id -> "new" | "open" | "closed"
  rooms,   \* io.sockets.adapter.rooms: key -> members, insertion order
  sids,    \* socket.rooms: socket id -> its room keys, insertion order
  last,    \* the handler that ran last: its arguments, locals and emits
  inbox,   \* per page: packets written by the server, not yet dispatched
  outbox,  \* per page: events emitted by app.ts, not yet handled
  roomId,  \* per page: let roomId (null is Undefined)
  localStream,      \* per page: 0 for null, n for the n-th stream acquired
  peerConnections,  \* per page: peer id -> the RTCPeerConnection, if any
  remoteVideos,     \* per page: peer id -> a video element is registered
  clicks,  \* join clicks so far, all pages together
  pendingMedia,     \* per page: getUserMedia calls not yet settled
  sinks,            \* per page: peer id -> video elements in remoteContainer
  iceServers,       \* per page: length of the array const iceServers
  fetching,         \* per page: the fetch of /ice.json has not settled
  alerts,           \* per page: alert() dialogs shown to the user
  candidates,       \* local ICE candidates discovered so far, all pages
  foreign,          \* the sockets connected by something else than app.ts
  foreignEvents,    \* events emitted by foreign sockets so far
  camEnabled,       \* per page: let camEnabled
  trackEnabled      \* per page: enabled of localStream's video track

serverVars == <<up, conn, rooms, sids, last>>
\* what the pages of the first scenarios leave alone: the ICE configuration,
\* the dialogs, candidate discovery and the sockets that are not pages
openVars == <<iceServers, fetching, alerts, candidates, foreign, foreignEvents>>
\* the camera switch of a page
camVars == <<camEnabled, trackEnabled>>
clientVars ==
  <<inbox, outbox, roomId, localStream, peerConnections, remoteVideos, clicks,
    pendingMedia, sinks, openVars, camVars>>
vars == <<serverVars, clientVars>>

\* ---------------------------------------------------------------- helpers
SeqToSet(s) == {s[i] : i \in 1..Len(s)}

Without(s, x) == SelectSeq(s, LAMBDA y : y # x)

\* Set.add: appends unless already present
SetAdd(s, x) == IF x \in SeqToSet(s) THEN s ELSE Append(s, x)

\* adapter.rooms.get(key): the empty sequence stands for undefined
RoomGet(rms, key) == IF key \in DOMAIN rms THEN rms[key] ELSE <<>>

\* socket.to(room).emit(ev, ...): every member of room except the socket
SocketToEmit(rms, c, room, ev, from, data) ==
  LET ms == Without(RoomGet(rms, room), c)
  IN  [i \in 1..Len(ms) |-> Pkt(ms[i], ev, from, data)]

\* io.to(target).emit(ev, ...): every member of the room named target
IoToEmit(rms, target, ev, from, data) ==
  LET ms == RoomGet(rms, target)
  IN  [i \in 1..Len(ms) |-> Pkt(ms[i], ev, from, data)]

NoLast ==
  [op |-> "none", who |-> Undefined, roomId |-> Undefined, data |-> NoData,
   snapshot |-> <<>>, joinAt |-> 0, effects |-> <<>>, threw |-> FALSE]

\* no entry of the Map peerConnections; live counts the RTCPeerConnection
\* objects constructed for the peer and not closed; ice is the length of
\* iceServers the connection was constructed with; local tells that a local
\* description was applied, after which the ICE agent gathers candidates
NoPc ==
  [sig |-> "none", chain |-> <<>>, stream |-> 0, live |-> 0, ice |-> 0,
   local |-> FALSE]

\* -------------------------------------------------------------------- Init
Init ==
  /\ up = TRUE
  /\ conn = [c \in SocketIds |-> "new"]
  /\ rooms = [k \in Keys |-> <<>>]
  /\ sids = [c \in SocketIds |-> <<>>]
  /\ last = NoLast
  /\ inbox = [c \in SocketIds |-> <<>>]
  /\ outbox = [c \in SocketIds |-> <<>>]
  /\ roomId = [c \in SocketIds |-> Undefined]
  /\ localStream = [c \in SocketIds |-> 0]
  /\ peerConnections = [c \in SocketIds |-> [p \in SocketIds |-> NoPc]]
  /\ remoteVideos = [c \in SocketIds |-> [p \in SocketIds |-> FALSE]]
  /\ clicks = 0
  /\ pendingMedia = [c \in SocketIds |-> 0]
  /\ sinks = [c \in SocketIds |-> [p \in SocketIds |-> 0]]
  /\ iceServers = [c \in SocketIds |-> 0]
  /\ fetching = [c \in SocketIds |-> TRUE]
  /\ alerts = [c \in SocketIds |-> 0]
  /\ candidates = 0
  /\ foreign = {}
  /\ foreignEvents = 0
  /\ camEnabled = [c \in SocketIds |-> TRUE]
  /\ trackEnabled = [c \in SocketIds |-> TRUE]

\* ------------------------------------------------------ server.ts handlers

\* io.on('connection'): the socket is placed in the room named by its id
Connection(c) ==
  /\ up
  /\ conn[c] = "new"
  /\ conn' = [conn EXCEPT ![c] = "open"]
  /\ rooms' = [rooms EXCEPT ![c] = SetAdd(@, c)]
  /\ sids' = [sids EXCEPT ![c] = SetAdd(@, c)]
  /\ last' = [NoLast EXCEPT !.op = "connection", !.who = c]
  /\ UNCHANGED up

\* faulty variant: the loop of lines 52-56 without the test of line 53
JoinAnnounceExisting_NoSelfTest(c, socketsInRoom) ==
  [i \in 1..Len(socketsInRoom) |->
     Pkt(c, "peer-joined", socketsInRoom[i], NoData)]

\* faulty variant: the join handler without its lines 50-57, as the two-peer
\* variant of the router had it
JoinAnnounceExisting_None(c, socketsInRoom) == <<>>

\* socket.on('join'), lines 50-57: socket.emit per existing member
JoinAnnounceExisting(c, socketsInRoom) ==
  LET others == Without(socketsInRoom, c)
  IN  [i \in 1..Len(others) |-> Pkt(c, "peer-joined", others[i], NoData)]

\* faulty variant: joining a room leaves the rooms joined before
JoinRooms_Exclusive(c, room) ==
  [k \in Keys |->
     IF k = room THEN SetAdd(rooms[k], c)
     ELSE IF k \in RoomIds THEN Without(rooms[k], c) ELSE rooms[k]]

\* socket.on('join'), line 59: socket.join(roomId)
JoinRooms(c, room) == [rooms EXCEPT ![room] = SetAdd(@, c)]

\* socket.on('join'), line 61: socket.to(roomId).emit('peer-joined', id)
JoinNotifyMembers(rms, c, room) ==
  SocketToEmit(rms, c, room, "peer-joined", c, NoData)

\* faulty variant: the room is notified before the newcomer is told of the members
JoinTrace_NotifyFirst(first, second) ==
  [effects |-> second \o first, joinAt |-> 0]

\* socket.on('join'), lines 50-61 in program order: the announcements to
\* the newcomer, socket.join after joinAt packets, the notice to the room
JoinTrace(first, second) ==
  [effects |-> first \o second, joinAt |-> Len(first)]

\* socket.on('join', roomId)
OnJoin(c, room) ==
  LET socketsInRoom == RoomGet(rooms, room)
      first == JoinAnnounceExisting(c, socketsInRoom)
      rms == JoinRooms(c, room)
      second == JoinNotifyMembers(rms, c, room)
      trace == JoinTrace(first, second)
  IN  /\ up
      /\ conn[c] = "open"
      /\ rooms' = rms
      /\ sids' = [sids EXCEPT ![c] = SetAdd(@, room)]
      /\ last' = [NoLast EXCEPT !.op = "join", !.who = c, !.roomId = room,
                                !.snapshot = socketsInRoom,
                                !.joinAt = trace.joinAt,
                                !.effects = trace.effects]
      /\ UNCHANGED <<up, conn>>

\* socket.on('signal'), line 64-65: destructuring and data.to throw a
\* TypeError when data is undefined; nothing catches it in the process
SignalThrows(payload) == ~payload.data.defined

\* faulty variant: a directed envelope is relayed as coming from its addressee
SignalRelay_FromAddressee(c, payload) ==
  LET target == payload.data.to
  IN  IF target # Undefined
        THEN IoToEmit(rooms, target, "signal", target, payload.data)
        ELSE SocketToEmit(rooms, c, payload.roomId, "signal", c, payload.data)

\* faulty variant: the broadcast branch of line 69 written with io.to, as line 67
SignalRelay_BroadcastViaIo(c, payload) ==
  LET target == payload.data.to
  IN  IF target # Undefined
        THEN IoToEmit(rooms, target, "signal", c, payload.data)
        ELSE IoToEmit(rooms, payload.roomId, "signal", c, payload.data)

\* socket.on('signal'), lines 66-70: the packets one relay writes
SignalRelay(c, payload) ==
  LET target == payload.data.to
  IN  IF target # Undefined
        THEN IoToEmit(rooms, target, "signal", c, payload.data)
        ELSE SocketToEmit(rooms, c, payload.roomId, "signal", c, payload.data)

\* socket.on('signal', { roomId, data })
OnSignal(c, payload) ==
  /\ up
  /\ conn[c] = "open"
  /\ IF SignalThrows(payload)
       THEN /\ up' = FALSE
            /\ last' = [NoLast EXCEPT !.op = "signal", !.who = c,
                                      !.roomId = payload.roomId,
                                      !.data = payload.data, !.threw = TRUE]
       ELSE /\ up' = up
            /\ last' = [NoLast EXCEPT !.op = "signal", !.who = c,
                                      !.roomId = payload.roomId,
                                      !.data = payload.data,
                                      !.effects = SignalRelay(c, payload)]
  /\ UNCHANGED <<conn, rooms, sids>>

\* socket.on('disconnecting'), line 74: [...socket.rooms].filter(...)
DisconnectingRooms(c) == Without(sids[c], c)

\* faulty variant: only the first room of the socket is told
DisconnectingEmits_FirstRoomOnly(c, rs) ==
  IF rs = <<>> THEN <<>>
  ELSE SocketToEmit(rooms, c, Head(rs), "peer-left", c, NoData)

\* socket.on('disconnecting'), lines 75-77: one broadcast per room
RECURSIVE DisconnectingEmits(_, _)
DisconnectingEmits(c, rs) ==
  IF rs = <<>> THEN <<>>
  ELSE SocketToEmit(rooms, c, Head(rs), "peer-left", c, NoData)
         \o DisconnectingEmits(c, Tail(rs))

\* faulty variant: the socket is only taken out of the room named by its id
LeaveAll_OwnRoomOnly(c) == [rooms EXCEPT ![c] = Without(@, c)]

\* what follows the 'disconnecting' listeners: Socket.IO removes the socket
\* from every room it is in (its own included)
LeaveAll(c) == [k \in Keys |-> Without(rooms[k], c)]

\* socket.on('disconnecting') and the removal that follows it
OnDisconnecting(c) ==
  LET rs == DisconnectingRooms(c)
  IN  /\ up
      /\ conn[c] = "open"
      /\ conn' = [conn EXCEPT ![c] = "closed"]
      /\ rooms' = LeaveAll(c)
      /\ sids' = [sids EXCEPT ![c] = <<>>]
      /\ last' = [NoLast EXCEPT !.op = "disconnecting", !.who = c,
                                !.snapshot = rs,
                                !.effects = DisconnectingEmits(c, rs)]
      /\ UNCHANGED up

\* ------------------------------------------------------ client/app.ts

\* what app.ts emits to the server
Out(ev, room, data) == [ev |-> ev, roomId |-> room, data |-> data]

\* RTCPeerConnection operations of one connection run one at a time in the
\* order they were called (its operations chain); the name of the operation
\* tells which await of which function resumes when it settles
Enqueue(pcs, peerId, op) == [pcs EXCEPT ![peerId].chain = Append(@, op)]

\* faulty variant: createPeerConnection without the has() test of line 123
CreatePeerConnection_NoHasTest(c, peerId) ==
  [peerConnections[c] EXCEPT
     ![peerId] = [sig |-> "stable", chain |-> <<>>,
                  stream |-> localStream[c], live |-> @.live + 1,
                  ice |-> iceServers[c], local |-> FALSE]]

\* createPeerConnection(peerId), lines 122-130: the Map after the call
CreatePeerConnection(c, peerId) ==
  IF peerConnections[c][peerId].sig # "none"
    THEN peerConnections[c]
    ELSE [peerConnections[c] EXCEPT
            ![peerId] = [sig |-> "stable", chain |-> <<>>,
                         stream |-> localStream[c], live |-> @.live + 1,
                         ice |-> iceServers[c], local |-> FALSE]]

\* makeCall(peerId) up to its first await, lines 175-176
MakeCallStart(c, peerId) ==
  Enqueue(CreatePeerConnection(c, peerId), peerId, "createOffer")

\* handleOffer(from, sdp) up to its first await, lines 196-197
HandleOfferStart(c, from) ==
  Enqueue(CreatePeerConnection(c, from), from, "setRemoteOffer")

\* faulty variant: handleAnswer gets its connection as handleOffer does
HandleAnswerStart_Creates(c, from) ==
  Enqueue(CreatePeerConnection(c, from), from, "setRemoteAnswer")

\* handleAnswer(from, sdp) up to its await, lines 215-217
HandleAnswerStart(c, from) ==
  IF peerConnections[c][from].sig = "none"
    THEN peerConnections[c]
    ELSE Enqueue(peerConnections[c], from, "setRemoteAnswer")

\* handleCandidate(from, candidate) up to its await, lines 232-235
HandleCandidateStart(c, from) ==
  IF peerConnections[c][from].sig = "none"
    THEN peerConnections[c]
    ELSE Enqueue(peerConnections[c], from, "addIceCandidate")

\* faulty variant: the listener leaves the connection open and registered
RemovePc_Ignore(pcs, peerId) == pcs

\* faulty variant: lines 313-314 without the test of line 312
RemovePc_NoTest(pcs, peerId) ==
  [pcs EXCEPT ![peerId] = [NoPc EXCEPT !.live = pcs[peerId].live - 1]]

\* socket.on('peer-left'), lines 311-315 on the Map pcs: close and forget
\* the connection, if there is one
RemovePc(pcs, peerId) ==
  IF pcs[peerId].sig = "none"
    THEN pcs
    ELSE [pcs EXCEPT ![peerId] = [NoPc EXCEPT !.live = pcs[peerId].live - 1]]

\* faulty variant: the video is detached but stays in the Map (no line 320)
RemoveVideo_Detached(videos, peerId) == videos

\* socket.on('peer-left'), lines 316-321 on the Map videos: detach and
\* forget the video element, if there is one
RemoveVideo(videos, peerId) ==
  IF videos[peerId] THEN [videos EXCEPT ![peerId] = FALSE] ELSE videos

\* socket.on('peer-left'), line 319 on the elements sk of remoteContainer:
\* the element the Map holds for the peer is taken out of the document
RemoveSink(videos, sk, peerId) ==
  IF videos[peerId] THEN [sk EXCEPT ![peerId] = @ - 1] ELSE sk

\* socket.on('peer-left'): the operations pending on a closed connection
\* never resume their callers
OnPeerLeft(c, peerId) == RemovePc(peerConnections[c], peerId)

\* socket.on('signal'), lines 287-297: the switch on data.type
OnClientSignal(c, from, data) ==
  CASE data.type = "offer" -> HandleOfferStart(c, from)
    [] data.type = "answer" -> HandleAnswerStart(c, from)
    [] data.type = "candidate" -> HandleCandidateStart(c, from)
    [] OTHER -> peerConnections[c]

\* the page runs the listener of the next packet the server wrote to it
Dispatch(c) ==
  /\ conn[c] = "open"
  /\ inbox[c] # <<>>
  /\ LET p == Head(inbox[c])
     IN  /\ peerConnections' =
               [peerConnections EXCEPT ![c] =
                  CASE p.ev = "peer-joined" -> MakeCallStart(c, p.from)
                    [] p.ev = "signal" -> OnClientSignal(c, p.from, p.data)
                    [] p.ev = "peer-left" -> OnPeerLeft(c, p.from)]
         /\ remoteVideos' =
               [remoteVideos EXCEPT ![c] =
                  IF p.ev = "peer-left" THEN RemoveVideo(@, p.from) ELSE @]
         /\ sinks' =
               [sinks EXCEPT ![c] =
                  IF p.ev = "peer-left"
                    THEN RemoveSink(remoteVideos[c], @, p.from) ELSE @]
  /\ inbox' = [inbox EXCEPT ![c] = Tail(@)]
  /\ UNCHANGED <<serverVars, outbox, roomId, localStream, clicks,
                 pendingMedia, openVars, camVars>>

\* faulty variant: a remote answer is accepted in every signaling state
OpAllowed_AnswerAnyState(op, sig) ==
  CASE op = "createOffer" -> sig \in {"stable", "have-local-offer"}
    [] op = "setLocalOffer" -> sig \in {"stable", "have-local-offer"}
    [] op = "setRemoteOffer" -> sig \in {"stable", "have-remote-offer"}
    [] op = "createAnswer" -> sig = "have-remote-offer"
    [] op = "setLocalAnswer" -> sig = "have-remote-offer"
    [] OTHER -> TRUE

\* the operation at the head of a connection's chain is allowed in the
\* signaling state sig (JSEP); otherwise its promise rejects
OpAllowed(op, sig) ==
  CASE op = "createOffer" -> sig \in {"stable", "have-local-offer"}
    [] op = "setLocalOffer" -> sig \in {"stable", "have-local-offer"}
    [] op = "setRemoteOffer" -> sig \in {"stable", "have-remote-offer"}
    [] op = "createAnswer" -> sig = "have-remote-offer"
    [] op = "setLocalAnswer" -> sig = "have-remote-offer"
    [] op = "setRemoteAnswer" -> sig = "have-local-offer"
    [] OTHER -> TRUE

\* the signaling state after the operation succeeded
SigAfter(op, sig) ==
  CASE op = "setLocalOffer" -> "have-local-offer"
    [] op = "setRemoteOffer" -> "have-remote-offer"
    [] op = "setLocalAnswer" -> "stable"
    [] op = "setRemoteAnswer" -> "stable"
    [] OTHER -> sig

\* the operation the caller starts when its await resumes
NextOp(op) ==
  CASE op = "createOffer" -> "setLocalOffer"
    [] op = "setRemoteOffer" -> "createAnswer"
    [] op = "createAnswer" -> "setLocalAnswer"
    [] OTHER -> "none"

\* the envelope the caller emits when its last await resumes:
\* makeCall line 178, handleOffer line 200
EmitAfter(c, peerId, op) ==
  CASE op = "setLocalOffer" ->
         <<Out("signal", roomId[c], MkData("offer", peerId))>>
    [] op = "setLocalAnswer" ->
         <<Out("signal", roomId[c], MkData("answer", peerId))>>
    [] OTHER -> <<>>

\* The 'track' listener of lines 132-151 runs while a remote description
\* is applied, once for the audio and once for the video track of the
\* stream; createPeerConnection installed it only if it got past line 128.
\* Every description is taken to carry the tracks of getUserMedia({video,
\* audio}).
TrackFires(op, pc) ==
  op \in {"setRemoteOffer", "setRemoteAnswer"} /\ pc.stream # 0

\* faulty variant: the 'track' listener without the has() test of line 134
TrackSinks_NoHasTest(has, n) == n + 1

\* The 'track' listener, lines 133-150, run for one track: the number of
\* video elements in remoteContainer for the peer, of which there were n,
\* when has tells whether remoteVideos had an entry.  Afterwards it has.
TrackSinks(has, n) == IF has THEN n ELSE n + 1

\* pc.setLocalDescription succeeded: the ICE agent starts to gather
StartsGathering(op) == op \in {"setLocalOffer", "setLocalAnswer"}

\* The head operation of the connection for peerId settles and the async
\* function awaiting it runs to its next await or to its end.  An offer
\* applied over a pending local offer is rolled back implicitly by current
\* browsers and rejected by older ones: both outcomes are possible.
OpSettles(c, peerId, rollback) ==
  LET pc == peerConnections[c][peerId]
      op == Head(pc.chain)
      glare == op = "setRemoteOffer" /\ pc.sig = "have-local-offer"
      ok == OpAllowed(op, pc.sig) \/ (glare /\ rollback)
      rest == Tail(pc.chain)
  IN  /\ conn[c] = "open"
      /\ pc.sig # "none"
      /\ pc.chain # <<>>
      /\ rollback => glare
      /\ peerConnections' =
           [peerConnections EXCEPT ![c][peerId] =
              IF ok
                THEN [pc EXCEPT
                        !.sig = SigAfter(op, pc.sig),
                        !.chain = IF NextOp(op) = "none" THEN rest
                                  ELSE Append(rest, NextOp(op)),
                        !.local = @ \/ StartsGathering(op)]
                ELSE [pc EXCEPT !.chain = rest]]
      /\ outbox' =
           [outbox EXCEPT ![c] =
              IF ok THEN @ \o EmitAfter(c, peerId, op) ELSE @]
      /\ remoteVideos' =
           [remoteVideos EXCEPT ![c][peerId] =
              IF ok /\ TrackFires(op, pc) THEN TRUE ELSE @]
      /\ sinks' =
           [sinks EXCEPT ![c][peerId] =
              IF ok /\ TrackFires(op, pc)
                THEN TrackSinks(TRUE, TrackSinks(remoteVideos[c][peerId], @))
                ELSE @]
      /\ UNCHANGED <<serverVars, inbox, roomId, localStream, clicks,
                     pendingMedia, openVars, camVars>>

\* joinBtn click, lines 250-253, with a room id typed: up to the await
Click(c, room) ==
  /\ conn[c] = "open"
  /\ c \notin foreign
  /\ clicks' = clicks + 1
  /\ roomId' = [roomId EXCEPT ![c] = room]
  /\ pendingMedia' = [pendingMedia EXCEPT ![c] = @ + 1]
  /\ UNCHANGED <<serverVars, inbox, outbox, localStream, peerConnections,
                 remoteVideos, sinks, openVars, camVars>>

\* a user clicks join, any time
JoinClick(c, room) == clicks < MaxClicks /\ Click(c, room)

\* getUserMedia settles: initMedia lines 105-106 and joinBtn line 254 (the
\* tracks of a new stream are enabled; camEnabled is not touched), or
\* the rejection ends the click handler, which has no catch: the rejection
\* of the listener's promise is left to the browser's console
MediaSettles(c, granted) ==
  /\ conn[c] = "open"
  /\ pendingMedia[c] > 0
  /\ pendingMedia' = [pendingMedia EXCEPT ![c] = @ - 1]
  /\ IF granted
       THEN /\ localStream' = [localStream EXCEPT ![c] = @ + 1]
            /\ trackEnabled' = [trackEnabled EXCEPT ![c] = TRUE]
            /\ outbox' = [outbox EXCEPT
                            ![c] = Append(@, Out("join", roomId[c], NoData))]
       ELSE UNCHANGED <<localStream, trackEnabled, outbox>>
  /\ UNCHANGED <<serverVars, inbox, roomId, peerConnections, remoteVideos,
                 clicks, sinks, openVars, camEnabled>>

\* joinBtn click, lines 250-251, with nothing typed: roomId is the empty
\* string, the user is told, and the handler returns.  The user does so
\* while no camera prompt of an earlier click is open.
BlankClick(c) ==
  /\ conn[c] = "open"
  /\ c \notin foreign
  /\ pendingMedia[c] = 0
  /\ clicks < MaxOpenClicks
  /\ clicks' = clicks + 1
  /\ roomId' = [roomId EXCEPT ![c] = Empty]
  /\ alerts' = [alerts EXCEPT ![c] = @ + 1]
  /\ UNCHANGED <<serverVars, inbox, outbox, localStream, peerConnections,
                 remoteVideos, pendingMedia, sinks, iceServers, fetching,
                 candidates, foreign, foreignEvents, camVars>>

\* the fetch of /ice.json started at page load settles, lines 86-93: the
\* server's list, which is never empty (server.ts 34-44), is pushed onto
\* iceServers, or the request failed and the array stays as it is
IceFetchSettles(c, ok) ==
  /\ conn[c] = "open"
  /\ c \notin foreign
  /\ fetching[c]
  /\ fetching' = [fetching EXCEPT ![c] = FALSE]
  /\ iceServers' = [iceServers EXCEPT ![c] = IF ok THEN @ + 1 ELSE @]
  /\ UNCHANGED <<serverVars, inbox, outbox, roomId, localStream,
                 peerConnections, remoteVideos, clicks, pendingMedia, sinks,
                 alerts, candidates, foreign, foreignEvents, camVars>>

\* The 'icecandidate' listener of lines 153-157 for a candidate of the
\* connection for peerId: what it emits.  createPeerConnection installed
\* the listener only if it got past line 128, and line 154 tests roomId.
CandidateEmits(c, peerId) ==
  IF /\ peerConnections[c][peerId].stream # 0
     /\ roomId[c] \notin {Undefined, Empty}
    THEN <<Out("signal", roomId[c], MkData("candidate", peerId))>>
    ELSE <<>>

\* the ICE agent of the open connection for peerId, which gathers since a
\* local description was applied, discovers a candidate
IceCandidate(c, peerId) ==
  /\ conn[c] = "open"
  /\ peerConnections[c][peerId].sig # "none"
  /\ peerConnections[c][peerId].local
  /\ candidates < MaxCandidates
  /\ candidates' = candidates + 1
  /\ outbox' = [outbox EXCEPT ![c] = @ \o CandidateEmits(c, peerId)]
  /\ UNCHANGED <<serverVars, inbox, roomId, localStream, peerConnections,
                 remoteVideos, clicks, pendingMedia, sinks, iceServers,
                 fetching, alerts, foreign, foreignEvents, camVars>>

\* ------------------------------------------------ pages and router together

\* every packet the handler wrote is queued for its socket; what a socket
\* that is not a page does with its packets is not followed
Deliver ==
  inbox' = [d \in SocketIds |->
              IF conn'[d] = "open" /\ d \notin foreign'
                THEN inbox[d] \o SelectSeq(last'.effects, LAMBDA p : p.to = d)
                ELSE <<>>]

\* a socket connects (a page is opened: const socket = io(), app.ts line 17)
PageLoad(c) == Connection(c) /\ UNCHANGED clientVars

\* the server handles the next event a page emitted
ServerHandles(c) ==
  /\ outbox[c] # <<>>
  /\ LET m == Head(outbox[c])
     IN  IF m.ev = "join"
           THEN OnJoin(c, m.roomId)
           ELSE OnSignal(c, [roomId |-> m.roomId, data |-> m.data])
  /\ outbox' = [outbox EXCEPT ![c] = Tail(@)]
  /\ UNCHANGED <<roomId, localStream, peerConnections, remoteVideos, clicks,
                 pendingMedia, sinks, openVars, camVars>>
  /\ Deliver

\* the page is closed: its state is gone, events it emitted and the server
\* has not read are lost, the server runs 'disconnecting'
PageClose(c) ==
  /\ OnDisconnecting(c)
  /\ outbox' = [outbox EXCEPT ![c] = <<>>]
  /\ roomId' = [roomId EXCEPT ![c] = Undefined]
  /\ localStream' = [localStream EXCEPT ![c] = 0]
  /\ peerConnections' =
       [peerConnections EXCEPT ![c] = [p \in SocketIds |-> NoPc]]
  /\ remoteVideos' = [remoteVideos EXCEPT ![c] = [p \in SocketIds |-> FALSE]]
  /\ pendingMedia' = [pendingMedia EXCEPT ![c] = 0]
  /\ sinks' = [sinks EXCEPT ![c] = [p \in SocketIds |-> 0]]
  /\ iceServers' = [iceServers EXCEPT ![c] = 0]
  /\ fetching' = [fetching EXCEPT ![c] = FALSE]
  /\ alerts' = [alerts EXCEPT ![c] = 0]
  /\ camEnabled' = [camEnabled EXCEPT ![c] = TRUE]
  /\ trackEnabled' = [trackEnabled EXCEPT ![c] = TRUE]
  /\ UNCHANGED <<clicks, candidates, foreign, foreignEvents>>
  /\ Deliver

Next ==
  \/ \E c \in SocketIds : PageLoad(c)
  \/ \E c \in SocketIds, room \in RoomIds : JoinClick(c, room)
  \/ \E c \in SocketIds, granted \in BOOLEAN : MediaSettles(c, granted)
  \/ \E c \in SocketIds : ServerHandles(c)
  \/ \E c \in SocketIds : Dispatch(c)
  \/ \E c \in SocketIds, peerId \in SocketIds, rollback \in BOOLEAN :
       OpSettles(c, peerId, rollback)
  \/ \E c \in SocketIds : PageClose(c)

Spec == Init /\ [][Next]_vars

\* What keeps running once it can: the server's event loop handles what
\* sockets sent, each page's event loop runs the listeners of what it
\* received, and the browser settles pending RTCPeerConnection operations
\* and getUserMedia prompts.  Users need not click, and pages need not close.
Fairness ==
  /\ \A c \in SocketIds : WF_vars(ServerHandles(c))
  /\ \A c \in SocketIds : WF_vars(Dispatch(c))
  /\ \A c \in SocketIds :
       WF_vars(\E granted \in BOOLEAN : MediaSettles(c, granted))
  /\ \A c, peerId \in SocketIds :
       WF_vars(\E rollback \in BOOLEAN : OpSettles(c, peerId, rollback))

FairSpec == Spec /\ Fairness

\* ------------------------------------------------------ the camera switch
\* toggleCamBtn click, lines 342-343: the flag is inverted and the video
\* track takes the new value; this is the track's enabled afterwards
ToggleTrack(cam) == ~cam

\* toggleCamBtn click, lines 338-345, on a page that holds a local stream
\* (which has a video track, as getUserMedia was asked for video); without
\* one the handler returns at line 339
ToggleCam(c) ==
  /\ conn[c] = "open"
  /\ c \notin foreign
  /\ localStream[c] # 0
  /\ camEnabled' = [camEnabled EXCEPT ![c] = ~@]
  /\ trackEnabled' = [trackEnabled EXCEPT ![c] = ToggleTrack(camEnabled[c])]
  /\ UNCHANGED <<serverVars, inbox, outbox, roomId, localStream,
                 peerConnections, remoteVideos, clicks, pendingMedia, sinks,
                 openVars>>

\* The pages of Next, with users who also switch their camera.
NextCam ==
  \/ Next
  \/ \E c \in SocketIds : ToggleCam(c)

SpecCam == Init /\ [][NextCam]_vars

\* --------------------------------------------- the ICE configuration races
\* The pages of Next, with /ice.json answered at any time after the page was
\* loaded, or never.
NextIce ==
  \/ Next
  \/ \E c \in SocketIds, ok \in BOOLEAN : IceFetchSettles(c, ok)

SpecIce == Init /\ [][NextIce]_vars

\* ------------------------------------------------- one room, patient users
\* nothing is in flight: no packet, no event, no pending operation
Quiet ==
  \A c \in SocketIds :
    /\ inbox[c] = <<>>
    /\ outbox[c] = <<>>
    /\ pendingMedia[c] = 0
    /\ \A p \in SocketIds : peerConnections[c][p].chain = <<>>

\* a user clicks join for the one room once the pages have settled
MeshClick(c) == Quiet /\ clicks < MaxMeshClicks /\ Click(c, MeshRoom)

\* the user grants the camera
MeshMedia(c) == MediaSettles(c, TRUE)

\* Up to MaxMeshClicks pages meet in one room.  Users click while nothing is
\* in flight and grant the camera; the network, the browsers and page
\* closes are as unconstrained as in Next.
NextMesh ==
  \/ \E c \in SocketIds : PageLoad(c)
  \/ \E c \in SocketIds : MeshClick(c)
  \/ \E c \in SocketIds : MeshMedia(c)
  \/ \E c \in SocketIds : ServerHandles(c)
  \/ \E c \in SocketIds : Dispatch(c)
  \/ \E c \in SocketIds, peerId \in SocketIds, rollback \in BOOLEAN :
       OpSettles(c, peerId, rollback)
  \/ \E c \in SocketIds : PageClose(c)

SpecMesh == Init /\ [][NextMesh]_vars

\* ---------------------------------------------- any string is a room id
\* what users type: the room, or a string that is the id of a socket
TypedRooms == {MeshRoom} \cup SocketIds

\* a user clicks join with one of these typed
TypedClick(c, room) == clicks < MaxTypedClicks /\ Click(c, room)

\* The pages of Next with users who type any string as the room id.
NextTyped ==
  \/ \E c \in SocketIds : PageLoad(c)
  \/ \E c \in SocketIds, room \in TypedRooms : TypedClick(c, room)
  \/ \E c \in SocketIds, granted \in BOOLEAN : MediaSettles(c, granted)
  \/ \E c \in SocketIds : ServerHandles(c)
  \/ \E c \in SocketIds : Dispatch(c)
  \/ \E c \in SocketIds, peerId \in SocketIds, rollback \in BOOLEAN :
       OpSettles(c, peerId, rollback)
  \/ \E c \in SocketIds : PageClose(c)

SpecTyped == Init /\ [][NextTyped]_vars

\* ------------------------------------------ pages among sockets of any kind
\* the socket that may be a client other than a page
Stranger == SocketIdNames[NumClients]

\* what a socket that is not a page sends to another socket: an envelope of
\* the protocol addressed by data.to, naming no room
ForeignSignals ==
  {[roomId |-> Undefined, data |-> MkData(t, to)] :
     t \in SignalTypes, to \in SocketIds \ {Stranger}}

\* a client that is not a page of app.ts connects; one stands for all
ForeignConnects(c) ==
  /\ foreign = {}
  /\ Connection(c)
  /\ foreign' = foreign \cup {c}
  /\ UNCHANGED <<inbox, outbox, roomId, localStream, peerConnections,
                 remoteVideos, clicks, pendingMedia, sinks, iceServers,
                 fetching, alerts, candidates, foreignEvents, camVars>>

\* what the foreign socket's event leaves alone
ForeignEmits(c) ==
  /\ c \in foreign
  /\ foreignEvents < MaxForeignEvents
  /\ foreignEvents' = foreignEvents + 1
  /\ UNCHANGED <<outbox, roomId, localStream, peerConnections, remoteVideos,
                 clicks, pendingMedia, sinks, iceServers, fetching, alerts,
                 candidates, foreign, camVars>>
  /\ Deliver

\* the foreign socket emits join
ForeignJoin(c, room) == OnJoin(c, room) /\ ForeignEmits(c)

\* the foreign socket emits signal
ForeignSignal(c, payload) == OnSignal(c, payload) /\ ForeignEmits(c)

\* a user clicks join with the room typed
OpenClick(c, room) == clicks < MaxOpenClicks /\ Click(c, room)

\* Pages and at most one foreign socket.  Users click at any time, with the
\* room typed or not, and grant the camera or not; ICE agents discover
\* candidates; /ice.json is not answered while this goes on.
NextOpen ==
  \/ \E c \in SocketIds : PageLoad(c)
  \/ ForeignConnects(Stranger)
  \/ \E c \in SocketIds : OpenClick(c, MeshRoom)
  \/ \E c \in SocketIds : BlankClick(c)
  \/ \E c \in SocketIds, granted \in BOOLEAN : MediaSettles(c, granted)
  \/ \E c \in SocketIds : ServerHandles(c)
  \/ \E c \in SocketIds : Dispatch(c)
  \/ \E c \in SocketIds, peerId \in SocketIds, rollback \in BOOLEAN :
       OpSettles(c, peerId, rollback)
  \/ \E c \in SocketIds, peerId \in SocketIds : IceCandidate(c, peerId)
  \/ ForeignJoin(Stranger, MeshRoom)
  \/ \E payload \in ForeignSignals : ForeignSignal(Stranger, payload)
  \/ \E c \in SocketIds : PageClose(c)

SpecOpen == Init /\ [][NextOpen]_vars

\* ------------------------------------------- the router under any clients
\* a socket that is not a page of app.ts emits join
RawJoin(c, room) == OnJoin(c, room) /\ UNCHANGED clientVars

\* a socket that is not a page of app.ts emits signal
RawSignal(c, payload) == OnSignal(c, payload) /\ UNCHANGED clientVars

\* the transport of a socket is lost
RawDisconnect(c) == OnDisconnecting(c) /\ UNCHANGED clientVars

\* The packets a handler writes are in last.effects; what the receiving
\* sockets do with them is not part of the router.
NextRouter ==
  \/ \E c \in SocketIds : PageLoad(c)
  \/ \E c \in SocketIds, room \in RoomIds : RawJoin(c, room)
  \/ \E c \in SocketIds, payload \in RawSignals : RawSignal(c, payload)
  \/ \E c \in SocketIds : RawDisconnect(c)

SpecRouter == Init /\ [][NextRouter]_vars

TypeOK ==
  /\ up \in BOOLEAN
  /\ conn \in [SocketIds -> {"new", "open", "closed"}]
  /\ \A k \in Keys : SeqToSet(rooms[k]) \subseteq SocketIds
  /\ \A c \in SocketIds : SeqToSet(sids[c]) \subseteq Keys
  /\ \A c \in SocketIds :
       /\ roomId[c] \in Keys \cup {Undefined, Empty}
       /\ localStream[c] \in Nat
       /\ pendingMedia[c] \in Nat
       /\ iceServers[c] \in Nat
       /\ fetching[c] \in BOOLEAN
       /\ alerts[c] \in Nat
       /\ camEnabled[c] \in BOOLEAN
       /\ trackEnabled[c] \in BOOLEAN
       /\ \A p \in SocketIds :
            /\ peerConnections[c][p].sig \in
                 {"none", "stable", "have-local-offer", "have-remote-offer"}
            /\ peerConnections[c][p].local \in BOOLEAN
            /\ remoteVideos[c][p] \in BOOLEAN
            /\ sinks[c][p] \in Nat
  /\ clicks \in Nat
  /\ candidates \in Nat
  /\ foreign \subseteq SocketIds
  /\ foreignEvents \in Nat

\* ------------------------------------------------ reading the last handler

\* number of packets of sequence s that satisfy Test
Count(s, Test(_)) == Len(SelectSeq(s, Test))

\* packets of the last handler written to socket d with event ev about from
Delivered(d, ev, from) ==
  Count(last.effects, LAMBDA p : p.to = d /\ p.ev = ev /\ p.from = from)

\* packets of the last handler written to socket d, of any kind
DeliveredTo(d) == Count(last.effects, LAMBDA p : p.to = d)

Recipients == {last.effects[i].to : i \in 1..Len(last.effects)}

LastJoin == last.op = "join"
LastSignal == last.op = "signal"
LastDisconnecting == last.op = "disconnecting"

\* members of the joined room when the handler started, the joiner apart
JoinOthers == SeqToSet(last.snapshot) \ {last.who}

\* the rooms of the disconnected socket in which m remains
SharedRooms(m) == {r \in SeqToSet(last.snapshot) : m \in SeqToSet(rooms[r])}

\* ------------------------------------------------------------------ claims

\* a joined room r before b did and both are still members
JoinedBefore(a, b, r) ==
  \E i, j \in 1..Len(rooms[r]) :
    i < j /\ rooms[r][i] = a /\ rooms[r][j] = b

\* page a has emitted an offer addressed to b that the server has yet to read
OfferInFlight(a, b) ==
  \E i \in 1..Len(outbox[a]) :
    /\ outbox[a][i].ev = "signal"
    /\ outbox[a][i].data.type = "offer"
    /\ outbox[a][i].data.to = b

\* C1 as claimed: a client that was a member of a room before another one
\* joined it never emits an offer addressed to that newcomer.
C1_ExistingNeverOffers ==
  \A a, b \in SocketIds, r \in RoomIds :
    JoinedBefore(a, b, r) => ~OfferInFlight(a, b)

\* C2: for every join (a repeated join of the same room included) each
\* other member present receives exactly one peer-joined carrying the
\* joiner's id, the joiner receives exactly one peer-joined per other member
\* present, and the joiner receives nothing else.
C2_JoinAnnouncesBothWays ==
  LastJoin =>
    /\ \A m \in JoinOthers :
         /\ Delivered(m, "peer-joined", last.who) = 1
         /\ DeliveredTo(m) = 1
         /\ Delivered(last.who, "peer-joined", m) = 1
    /\ DeliveredTo(last.who) = Cardinality(JoinOthers)
    /\ Recipients \subseteq JoinOthers \cup {last.who}

\* a join of a room the joiner is already in, with two other members
C2_Witness ==
  /\ LastJoin
  /\ last.who \in SeqToSet(last.snapshot)
  /\ Cardinality(JoinOthers) = 2

\* C3 as claimed: a disconnect of C gives exactly one peer-left(C) to every
\* socket that remains in some room C was in, and none to the others.
C3_ExactlyOnePeerLeft ==
  LastDisconnecting =>
    \A m \in SocketIds :
      Delivered(m, "peer-left", last.who)
        = (IF SharedRooms(m) # {} THEN 1 ELSE 0)

\* C3 amended: a disconnect of C gives every remaining socket one
\* peer-left(C) per room it shared with C, and nothing else.
C3_OnePeerLeftPerSharedRoom ==
  LastDisconnecting =>
    \A m \in SocketIds :
      /\ Delivered(m, "peer-left", last.who) = Cardinality(SharedRooms(m))
      /\ DeliveredTo(m) = Cardinality(SharedRooms(m))

\* a disconnect with one socket sharing two rooms and one sharing none
C3_Witness ==
  /\ LastDisconnecting
  /\ \E m \in SocketIds : Cardinality(SharedRooms(m)) = 2
  /\ \E m \in SocketIds : conn[m] = "open" /\ SharedRooms(m) = {}

\* C4 as claimed: a signal with data.to set reaches the socket whose id is
\* data.to and no other socket, whatever data.to is.
C4_DirectedReachesOnlyTo ==
  (LastSignal /\ ~last.threw /\ last.data.to # Undefined) =>
    /\ Recipients \subseteq {last.data.to}
    /\ DeliveredTo(last.data.to) <= 1

\* C5: a signal without data.to is written exactly once to every member of
\* the named room other than the sender and never to the sender.
C5_BroadcastToOtherMembers ==
  (LastSignal /\ ~last.threw /\ last.data.to = Undefined) =>
    /\ \A m \in SeqToSet(RoomGet(rooms, last.roomId)) \ {last.who} :
         /\ Delivered(m, "signal", last.who) = 1
         /\ DeliveredTo(m) = 1
    /\ DeliveredTo(last.who) = 0

\* a broadcast by a member of a room with two other members
C5_Witness ==
  /\ LastSignal /\ ~last.threw /\ last.data.to = Undefined
  /\ last.roomId \in RoomIds
  /\ last.who \in SeqToSet(rooms[last.roomId])
  /\ Len(rooms[last.roomId]) = 3
  /\ Len(last.effects) = 2

\* C6 as claimed: no signal is written back to the socket that sent it.
C6_NeverBackToSender ==
  LastSignal => DeliveredTo(last.who) = 0

\* C7 as claimed: a signal without data.to that names a room the sender is
\* not a member of reaches no member of that room.
C7_CrossRoomIsolation ==
  (LastSignal /\ ~last.threw /\ last.data.to = Undefined
     /\ last.who \notin SeqToSet(RoomGet(rooms, last.roomId)))
    => last.effects = <<>>

\* the envelope of the last signal is malformed: no room, no data, or a
\* kind other than offer, answer, candidate
Malformed ==
  \/ last.roomId = Undefined
  \/ ~last.data.defined
  \/ last.data.type \notin SignalTypes

\* C8 as claimed: a malformed envelope reaches nobody and the router keeps
\* handling events.
C8_MalformedDroppedRouterRuns ==
  (LastSignal /\ Malformed) => (last.effects = <<>> /\ up)

\* C9: the join handler first writes the announcements to the joiner (one
\* per other member present), then adds the joiner to the room, then writes
\* the notices to the other members; no notice precedes an announcement.
C9_JoinOrder ==
  LastJoin =>
    /\ last.joinAt = Cardinality(JoinOthers)
    /\ \A i \in 1..Len(last.effects) :
         IF i <= last.joinAt
           THEN /\ last.effects[i].to = last.who
                /\ last.effects[i].from \in JoinOthers
           ELSE /\ last.effects[i].to \in JoinOthers
                /\ last.effects[i].from = last.who
    /\ last.who \in SeqToSet(rooms[last.roomId])

\* a join with announcements and notices to order
C9_Witness ==
  /\ LastJoin
  /\ last.joinAt = 2
  /\ Len(last.effects) = 4

\* the joined room had exactly one member, another socket
JoinOfSingleMemberRoom ==
  LastJoin /\ Len(last.snapshot) = 1 /\ last.snapshot[1] # last.who

\* C10 as claimed: when B joins a room whose only member is A, A receives
\* peer-joined(B) and B receives no peer-joined.
C10_NewcomerHearsNothing ==
  JoinOfSingleMemberRoom =>
    /\ Delivered(last.snapshot[1], "peer-joined", last.who) = 1
    /\ DeliveredTo(last.who) = 0

\* C10 amended: when B joins a room whose only member is A, B receives
\* exactly peer-joined(A) and then A receives exactly peer-joined(B).
C10_BothHearOneAnnouncement ==
  JoinOfSingleMemberRoom =>
    last.effects =
      <<Pkt(last.who, "peer-joined", last.snapshot[1], NoData),
        Pkt(last.snapshot[1], "peer-joined", last.who, NoData)>>

C10_Witness == JoinOfSingleMemberRoom /\ Len(last.effects) = 2

\* ------------------------------------------------------- reading the pages

\* the pending operations of c's connection for p that a makeCall(p) awaits
MakeCallOps(c, p) ==
  Len(SelectSeq(peerConnections[c][p].chain,
                LAMBDA op : op \in {"createOffer", "setLocalOffer"}))

\* the offer envelope page c emits for p
OfferTo(c, p) == Out("signal", roomId[c], MkData("offer", p))

\* C11 as claimed: a newcomer sends one offer to each member that was in
\* the room before it: every makeCall it runs for such a member ends, while
\* the connection lives, with the offer envelope emitted.
C11_NewcomerOffersEachMember ==
  [][\A c, p \in SocketIds, r \in RoomIds :
       (/\ JoinedBefore(p, c, r)
        /\ peerConnections'[c][p].sig # "none"
        /\ MakeCallOps(c, p)' < MakeCallOps(c, p))
         => outbox'[c] = Append(outbox[c], OfferTo(c, p))]_vars

\* a peer-left(a) the server wrote is still queued for page b
PeerLeftQueued(b, a) ==
  \E i \in 1..Len(inbox[b]) :
    inbox[b][i].ev = "peer-left" /\ inbox[b][i].from = a

\* page b holds something for peer a: a registered connection, a connection
\* object that was never closed, or a video element
Holds(b, a) ==
  \/ peerConnections[b][a].sig # "none"
  \/ peerConnections[b][a].live # 0
  \/ remoteVideos[b][a]

\* C12: once a has disconnected, a page that remains holds a connection or
\* a video for a only while a peer-left(a) is still queued for it: when the
\* page has processed its notice the connection is closed and neither Map
\* has an entry for a, in whatever signaling state the connection was.
C12_DepartedPeerForgotten ==
  \A a, b \in SocketIds :
    (conn[a] = "closed" /\ conn[b] = "open" /\ Holds(b, a))
      => PeerLeftQueued(b, a)

\* a has left a room where b and c remain and each was sent its notice: b
\* has processed it, c is about to, with a connected link and a video for a
C12_Witness ==
  \E a, b, c \in SocketIds :
    /\ b # c
    /\ LastDisconnecting /\ last.who = a
    /\ Delivered(b, "peer-left", a) = 1
    /\ Delivered(c, "peer-left", a) = 1
    /\ ~PeerLeftQueued(b, a) /\ ~Holds(b, a)
    /\ inbox[c] # <<>> /\ Head(inbox[c]).ev = "peer-left"
    /\ Head(inbox[c]).from = a
    /\ peerConnections[c][a].sig = "stable" /\ remoteVideos[c][a]

\* the pending operations of c's connection for p that a handleOffer awaits
HandleOfferOps(c, p) ==
  Len(SelectSeq(peerConnections[c][p].chain,
                LAMBDA op : op \in {"setRemoteOffer", "createAnswer",
                                     "setLocalAnswer"}))

\* C13: a page never has more than one open RTCPeerConnection per remote
\* id, and that one is the entry of the Map: createPeerConnection(p) makes
\* a connection only when none is registered for p.
C13_OneLinkPerPeer ==
  \A c, p \in SocketIds :
    /\ peerConnections[c][p].live \in {0, 1}
    /\ peerConnections[c][p].live = 1 <=> peerConnections[c][p].sig # "none"

\* makeCall(p) and handleOffer(p) are both suspended on the one connection
C13_Witness ==
  \E c, p \in SocketIds :
    /\ peerConnections[c][p].live = 1
    /\ MakeCallOps(c, p) > 0
    /\ HandleOfferOps(c, p) > 0

\* C14: running the peer-left listener for p a second time, or for a p that
\* has neither connection nor video, leaves both Maps as they are and closes
\* no connection.
C14_RemovalIdempotent ==
  \A c, p \in SocketIds :
    LET pcs == RemovePc(peerConnections[c], p)
        videos == RemoveVideo(remoteVideos[c], p)
    IN  /\ RemovePc(pcs, p) = pcs
        /\ RemoveVideo(videos, p) = videos
        /\ ~Holds(c, p) =>
             /\ pcs = peerConnections[c]
             /\ videos = remoteVideos[c]

\* page c is about to run the listener for a peer it has a connection and a
\* video for, so that the first run removes both
C14_Witness ==
  \E c, p \in SocketIds :
    /\ inbox[c] # <<>>
    /\ Head(inbox[c]).ev = "peer-left" /\ Head(inbox[c]).from = p
    /\ peerConnections[c][p].sig # "none"
    /\ remoteVideos[c][p]
    /\ RemovePc(peerConnections[c], p) # peerConnections[c]
    /\ RemoveVideo(remoteVideos[c], p) # remoteVideos[c]

\* what a run of the join handler leaves alone: every other room, and the
\* rooms the joiner was in
JoinFrame ==
  last'.op = "join" =>
    LET c == last'.who
        r == last'.roomId
    IN  /\ \A k \in Keys \ {r} : rooms'[k] = rooms[k]
        /\ \A d \in SocketIds \ {c} : sids'[d] = sids[d]
        /\ SeqToSet(sids'[c]) = SeqToSet(sids[c]) \cup {r}
        /\ SeqToSet(rooms'[r]) = SeqToSet(rooms[r]) \cup {c}

\* a socket is served in every room it is a member of: it is sent the
\* broadcasts of each, and its disconnect is told to the members of each
EveryRoomServed ==
  /\ \A c \in SocketIds, k \in Keys :
        k \in SeqToSet(sids[c]) <=> c \in SeqToSet(rooms[k])
  /\ (LastSignal /\ ~last.threw /\ last.data.to = Undefined) =>
        \A m \in SeqToSet(RoomGet(rooms, last.roomId)) \ {last.who} :
          Delivered(m, "signal", last.who) = 1
  /\ LastDisconnecting =>
        \A r \in SeqToSet(last.snapshot) :
          /\ r \in RoomIds
          /\ \A m \in SeqToSet(rooms[r]) :
               Delivered(m, "peer-left", last.who) >= 1

\* C15: a join of a second room by a socket that is a member of a first one
\* changes no membership but the joined room's: the socket is then a member
\* of both, is sent the broadcasts of both, and when it disconnects the
\* members of both are notified.
C15_SecondJoinKeepsFirst == [][JoinFrame]_vars /\ []EveryRoomServed

\* a socket with a room-mate in r1 has just joined r2, where it has another
C15_Witness ==
  \E r1, r2 \in RoomIds :
    /\ r1 # r2
    /\ LastJoin /\ last.roomId = r2
    /\ last.who \notin SeqToSet(last.snapshot)
    /\ last.who \in SeqToSet(rooms[r1]) /\ last.who \in SeqToSet(rooms[r2])
    /\ Len(rooms[r1]) >= 2 /\ Len(rooms[r2]) >= 2

\* in this step page c runs its signal listener on an envelope of the given
\* type that came from p
Handles(c, p, type) ==
  /\ inbox[c] # <<>>
  /\ Head(inbox[c]).ev = "signal"
  /\ Head(inbox[c]).from = p
  /\ Head(inbox[c]).data.type = type
  /\ conn'[c] = "open"
  /\ inbox'[c] = Tail(inbox[c])

\* C16 as claimed: no page handles an offer from p while its own connection
\* for p has a local offer pending (it has sent p an offer of its own).
C16_NoOfferWhileOffering ==
  [][\A c, p \in SocketIds :
       Handles(c, p, "offer")
         => peerConnections[c][p].sig # "have-local-offer"]_vars

\* pages a and b are members of one room
RoomMates(a, b) ==
  \E r \in RoomIds : {a, b} \subseteq SeqToSet(rooms[r])

\* each of a and b holds a connection for the other in signaling state
\* stable with nothing pending
Linked(a, b) ==
  /\ peerConnections[a][b].sig = "stable" /\ peerConnections[a][b].chain = <<>>
  /\ peerConnections[b][a].sig = "stable" /\ peerConnections[b][a].chain = <<>>

\* C17 as claimed: when two different pages are members of one room then, unless one
\* of them disconnects, the connections they hold for each other end up
\* stable for good.
C17_PairsBecomeStable ==
  \A a, b \in SocketIds :
    [](a # b /\ RoomMates(a, b) =>
         \/ <>(conn[a] = "closed" \/ conn[b] = "closed")
         \/ <>[]Linked(a, b))

\* in this step the operation op at the head of c's connection for p
\* settles and nothing is called in its place
Settles(c, p, op) ==
  /\ peerConnections[c][p].chain # <<>>
  /\ Head(peerConnections[c][p].chain) = op
  /\ peerConnections'[c][p].sig # "none"
  /\ peerConnections'[c][p].chain = Tail(peerConnections[c][p].chain)

C19_OneStepInFlight ==
  [][\A c, p \in SocketIds, type \in SignalTypes :
       Handles(c, p, type) => peerConnections[c][p].chain = <<>>]_vars

\* the offers and answers addressed to p among the events q of a page
EnvelopesTo(q, p) ==
  Len(SelectSeq(q, LAMBDA m : /\ m.ev = "signal"
                              /\ m.data.type \in {"offer", "answer"}
                              /\ m.data.to = p))

\* p has disconnected and page c has run the listener of every peer-left(p)
\* it was sent
Departed(c, p) ==
  conn[p] = "closed" /\ conn[c] = "open" /\ ~PeerLeftQueued(c, p)

\* C20: once a page has processed the peer-left of p, nothing that was
\* suspended for p goes on: the page emits no offer and no answer addressed
\* to p, applies no description and registers nothing for p.
C20_NothingResumesAfterPeerLeft ==
  [][\A c, p \in SocketIds :
       Departed(c, p) =>
         /\ EnvelopesTo(outbox'[c], p) <= EnvelopesTo(outbox[c], p)
         /\ peerConnections'[c][p] = peerConnections[c][p]
         /\ remoteVideos'[c][p] = remoteVideos[c][p]]_vars

\* p has left and its room-mates b and c were notified: b has processed
\* the notice, c is about to, with a makeCall(p) or a handleOffer(p)
\* suspended at an await
C20_Witness ==
  \E p, b, c \in SocketIds :
    /\ b # c
    /\ LastDisconnecting /\ last.who = p
    /\ Delivered(b, "peer-left", p) = 1
    /\ Delivered(c, "peer-left", p) = 1
    /\ Departed(b, p)
    /\ inbox[c] # <<>> /\ Head(inbox[c]).ev = "peer-left"
    /\ Head(inbox[c]).from = p
    /\ MakeCallOps(c, p) + HandleOfferOps(c, p) > 0

\* everything page c holds apart from the packets queued for it
PageState(c) ==
  <<outbox[c], roomId[c], localStream[c], pendingMedia[c], peerConnections[c],
    remoteVideos[c], sinks[c], iceServers[c], fetching[c], alerts[c]>>

\* C21: when a page handles an answer or a candidate from a peer for which
\* its Map has no connection, nothing of the page changes: no connection
\* is made, no video, nothing is emitted, nothing is kept of the envelope.
C21_StaleSignalsIgnored ==
  [][\A c, p \in SocketIds, type \in {"answer", "candidate"} :
       (Handles(c, p, type) /\ peerConnections[c][p].sig = "none")
         => PageState(c)' = PageState(c)]_vars

\* a page whose camera was granted is about to handle an answer and then a
\* candidate from a peer it has no connection for
C21_Witness ==
  \E c, p \in SocketIds :
    /\ localStream[c] # 0
    /\ peerConnections[c][p].sig = "none"
    /\ Len(inbox[c]) = 2
    /\ inbox[c][1].ev = "signal" /\ inbox[c][1].from = p
    /\ inbox[c][1].data.type = "answer"
    /\ inbox[c][2].ev = "signal" /\ inbox[c][2].from = p
    /\ inbox[c][2].data.type = "candidate"

\* the candidate envelope page c emits for p
CandidateTo(c, p) == Out("signal", roomId[c], MkData("candidate", p))

\* C22 as claimed: every candidate discovered on an open connection makes
\* the page emit a candidate envelope addressed to the peer of that
\* connection, however and whenever the connection was made.
C22_EveryCandidateEmitted ==
  [][candidates' # candidates =>
       \E c, p \in SocketIds :
         /\ peerConnections[c][p].sig # "none"
         /\ outbox'[c] = Append(outbox[c], CandidateTo(c, p))]_vars

\* in this step a getUserMedia call of page c is rejected
MediaDenied(c) ==
  /\ conn'[c] = "open"
  /\ pendingMedia'[c] < pendingMedia[c]
  /\ localStream'[c] = localStream[c]

\* C23 as claimed: when getUserMedia is rejected during a join click the
\* page emits no join and the user is told of the failure.
C23_DenialSurfacedNoJoin ==
  [][\A c \in SocketIds :
       MediaDenied(c) =>
         /\ outbox'[c] = outbox[c]
         /\ alerts'[c] > alerts[c]]_vars

\* C24 as claimed: every open connection of a page carries the tracks of
\* one and the same getUserMedia stream: none is without tracks and no two
\* carry the tracks of different streams.
C24_OneAcquisitionForAllLinks ==
  \A c, p, q \in SocketIds :
    (peerConnections[c][p].sig # "none" /\ peerConnections[c][q].sig # "none")
      => /\ peerConnections[c][p].stream # 0
         /\ peerConnections[c][p].stream = peerConnections[c][q].stream

\* C25 as claimed: no open connection was constructed from an iceServers
\* array that the fetch of /ice.json changed afterwards: each was made with
\* the configuration the page has now.
C25_ConfigFetchedBeforeLinks ==
  \A c, p \in SocketIds :
    peerConnections[c][p].sig # "none"
      => peerConnections[c][p].ice = iceServers[c]

\* in this step a remote description is applied on c's connection for p,
\* which has the 'track' listener: the tracks of p's stream arrive
MediaArrives(c, p) ==
  LET pc == peerConnections[c][p]
  IN  /\ pc.chain # <<>>
      /\ TrackFires(Head(pc.chain), pc)
      /\ OpAllowed(Head(pc.chain), pc.sig) \/ pc.sig = "have-local-offer"
      /\ peerConnections'[c][p].sig = SigAfter(Head(pc.chain), pc.sig)

\* a video element for p is added to the document only when media arrives
SinkOnlyOnTrack ==
  \A c, p \in SocketIds :
    (sinks'[c][p] > sinks[c][p] \/ (remoteVideos'[c][p] /\ ~remoteVideos[c][p]))
      => MediaArrives(c, p)

\* the document holds at most one video element per peer, the one of the Map
OneSinkPerPeer ==
  \A c, p \in SocketIds :
    sinks[c][p] = (IF remoteVideos[c][p] THEN 1 ELSE 0)

\* C26: a page has a video element for p only once tracks of p have
\* arrived on its connection for p, and never more than one: a track event
\* for a peer that has an element reuses it.
C26_OneSinkOnceMediaArrived == [][SinkOnlyOnTrack]_vars /\ []OneSinkPerPeer

\* a page that shows the video of p is about to apply another description
\* of p, whose track events find the element in the Map
C26_Witness ==
  \E c, p \in SocketIds :
    /\ remoteVideos[c][p] /\ sinks[c][p] = 1
    /\ peerConnections[c][p].chain # <<>>
    /\ TrackFires(Head(peerConnections[c][p].chain), peerConnections[c][p])
    /\ OpAllowed(Head(peerConnections[c][p].chain), peerConnections[c][p].sig)

\* a socket becomes a member of a room only by the join handler run for
\* that socket and that room
EntersByJoin ==
  \A c \in SocketIds, r \in RoomIds :
    (c \in SeqToSet(rooms'[r]) /\ c \notin SeqToSet(rooms[r]))
      => (last'.op = "join" /\ last'.who = c /\ last'.roomId = r)

\* the members of every room are connected sockets
MembersConnected ==
  \A k \in Keys : \A c \in SeqToSet(rooms[k]) : conn[c] = "open"

\* a join handler announces connected sockets only
NoGhostAnnounced ==
  LastJoin =>
    \A i \in 1..Len(last.effects) : conn[last.effects[i].from] = "open"

C28_NoLinkLeaks ==
  Quiet =>
    \A c, p \in SocketIds :
      peerConnections[c][p].sig # "none"
        => (conn[p] = "open" /\ RoomMates(c, p))

\* every packet of the sequence is a signal from c that carries data
RelayedAs(packets, c, data) ==
  \A i \in 1..Len(packets) :
    /\ packets[i].ev = "signal"
    /\ packets[i].from = c
    /\ packets[i].data = data

\* C29: every signal packet the router writes carries as from the id of the
\* socket whose event it handles, and that socket's data as it came:
\* whatever roomId, data and data.to a socket puts in its envelope, the
\* recipients see that socket's id.
C29_SenderAuthentic ==
  /\ (LastSignal /\ ~last.threw) =>
        RelayedAs(last.effects, last.who, last.data)
  /\ \A c \in SocketIds, payload \in RawSignals :
        ~SignalThrows(payload) =>
          RelayedAs(SignalRelay(c, payload), c, payload.data)

\* a socket named, in a signal addressed to another socket, a room it is
\* not a member of, and the signal was delivered
C29_Witness ==
  /\ LastSignal /\ ~last.threw
  /\ last.roomId \in RoomIds
  /\ last.who \notin SeqToSet(rooms[last.roomId])
  /\ last.data.to \in SocketIds \ {last.who}
  /\ Len(last.effects) = 1
  /\ last.effects[1].to = last.data.to

\* a peer-joined carrying the id of the page it is queued for
OwnPeerJoined(c) ==
  \E i \in 1..Len(inbox[c]) :
    inbox[c][i].ev = "peer-joined" /\ inbox[c][i].from = c

\* C30 as claimed: no page is sent a peer-joined carrying its own id, and
\* so no page has a connection keyed by its own id or emits an offer
\* addressed to itself.
C30_NeverOwnPeer ==
  \A c \in SocketIds :
    /\ ~OwnPeerJoined(c)
    /\ peerConnections[c][c].sig = "none"
    /\ ~OfferInFlight(c, c)

\* C31: a page has a video element for p only while its Map of connections
\* has an entry for p: the element is made by a listener of that connection,
\* and the peer-left listener removes the connection and the element in
\* one run.
C31_SinksAmongLinks ==
  \A c, p \in SocketIds :
    (remoteVideos[c][p] \/ sinks[c][p] > 0)
      => peerConnections[c][p].sig # "none"

\* p has left and page c, which was sent the notice, has run its listener
\* and holds nothing for p, while it still shows the video of another peer
C31_Witness ==
  \E c, p, q \in SocketIds :
    /\ LastDisconnecting /\ last.who = p
    /\ Delivered(c, "peer-left", p) = 1
    /\ Departed(c, p) /\ ~Holds(c, p)
    /\ remoteVideos[c][q] /\ peerConnections[c][q].sig # "none"

\* C32 as claimed: while a page holds a local stream, camEnabled (from which
\* the button label is written) equals the enabled state of the stream's
\* video track, after any camera toggles and join clicks.
C32_FlagMatchesTrack ==
  \A c \in SocketIds :
    localStream[c] # 0 => camEnabled[c] = trackEnabled[c]

====
